---- MODULE Spec2Model ----
(***************************************************************************)
(* Set<T>: an ordered set kept as an AVL tree whose rightmost node is a    *)
(* sentinel (is_end) standing for the past-the-end position.               *)
(* The model instantiates T with small integers.  Nodes live in a heap     *)
(* indexed by node addresses 1..MaxNodes, NULL is address 0.               *)
(* Definitions follow src/SetTemplate.h; src/unnamed/part_000 holds the    *)
(* same tree code with left_son/right_son for left/right and the iterator  *)
(* loops as the helpers GetLeftmost and GetGreaterParent.                  *)
(* Operators that change memory take the heap and return it with their     *)
(* result.  Three specifications: Spec drives one object from the empty    *)
(* set by insert and erase; SpecCopy adds a second object made by copying; *)
(* SpecLife ends the life of the one object with its destructor.           *)
(***************************************************************************)
EXTENDS Integers, Sequences, FiniteSets, TLC

\* ------------------------------------------------------------------ bounds
\* Keys handed to insert/erase/find/lower_bound are 1..MaxKey.
MaxKey == 6
\* Keys used when two Set objects are alive (copy construction, assignment).
MaxCopyKey == 3
\* Calls that change a copy before it is destroyed or assigned anew.
MaxCopyOps == 2

Keys == 1..MaxKey
CopyKeys == 1..MaxCopyKey
\* Values the never-initialised key of a sentinel may hold: below every key
\* or above every key, so that each comparison against it can go both ways.
Garbage == {0, MaxKey + 1}
\* Queries of lower_bound also probe below and above every key.
Probes == 0..(MaxKey + 1)
MaxNodes == 2 * (MaxKey + 1)
NodeIds == 1..MaxNodes
NULL == 0
Sets == {"A", "B"}

VARIABLES
    heap,    \* node memory: address -> node
    live,    \* addresses currently allocated (new'ed and not deleted)
    root_,   \* per Set object: root_
    size_,   \* per Set object: size_
    end_,    \* per Set object: end_
    built,   \* per Set object: whether it is constructed and not destroyed
    junk,    \* what uninitialised memory holds
    keys,    \* per Set object: the keys inserted and not erased since
    last,    \* the last public call and what held before it
    age      \* per Set object: the calls that changed it since it was built

vars == <<heap, live, root_, size_, end_, built, junk, keys, last, age>>

\* ------------------------------------------------------------------ nodes
Max(a, b) == IF a < b THEN b ELSE a

\* Memory outside any allocation.
Blank == [key |-> 0, height |-> 0, left |-> NULL, right |-> NULL,
          parent |-> NULL, is_end |-> FALSE]

\* node(T k, node *par)
KeyNode(k, par) == [key |-> k, height |-> 1, left |-> NULL, right |-> NULL,
                    parent |-> par, is_end |-> FALSE]

\* node(node *par): key is left uninitialised, g is what the memory holds.
EndNode(g, par) == [key |-> g, height |-> 1, left |-> NULL, right |-> NULL,
                    parent |-> par, is_end |-> TRUE]

\* operator new: some free address.  The allocator probes upward (cyclically)
\* from a hint, so that equal trees are laid out at equal addresses.
Probe(hint, i) == ((hint - 1 + i) % MaxNodes) + 1
Alloc(lv, hint) ==
    LET d == CHOOSE i \in 0..(MaxNodes - 1) :
                 /\ Probe(hint, i) \notin lv
                 /\ \A j \in 0..(i - 1) : Probe(hint, j) \in lv
    IN  Probe(hint, d)
Base(s) == IF s = "A" THEN 0 ELSE MaxKey + 1
KeyHint(s, k) == Base(s) + k
EndHint(s) == Base(s) + MaxKey + 1

GetHeight(h, v) == IF v # NULL THEN h[v].height ELSE 0

GetBalance(h, v) ==
    IF v # NULL THEN GetHeight(h, h[v].left) - GetHeight(h, h[v].right) ELSE 0

FixHeight(h, v) ==
    IF v # NULL
    THEN [h EXCEPT ![v].height =
             Max(GetHeight(h, h[v].left), GetHeight(h, h[v].right)) + 1]
    ELSE h

\* Rotations return the heap and the new subtree root.
RightRotation(h, v) ==
    LET q  == h[v].left
        h1 == [h EXCEPT ![v].left = h[q].right]
        h2 == IF h1[v].left # NULL
              THEN [h1 EXCEPT ![h1[v].left].parent = v] ELSE h1
        h3 == [h2 EXCEPT ![q].right = v, ![q].parent = h2[v].parent]
        h4 == [h3 EXCEPT ![v].parent = q]
    IN  [h |-> FixHeight(FixHeight(h4, v), q), r |-> q]

LeftRotation(h, v) ==
    LET q  == h[v].right
        h1 == [h EXCEPT ![v].right = h[q].left]
        h2 == IF h1[v].right # NULL
              THEN [h1 EXCEPT ![h1[v].right].parent = v] ELSE h1
        h3 == [h2 EXCEPT ![q].left = v, ![q].parent = h2[v].parent]
        h4 == [h3 EXCEPT ![v].parent = q]
    IN  [h |-> FixHeight(FixHeight(h4, v), q), r |-> q]

\* FixBalance that recomputes the height and never rotates.
FixBalanceNoRotation(h, v) == [h |-> FixHeight(h, v), r |-> v]

FixBalance(h, v) ==
    IF v = NULL THEN [h |-> h, r |-> NULL]
    ELSE
      LET h1 == FixHeight(h, v) IN
      IF GetBalance(h1, v) = -2 THEN
          LET a  == IF GetBalance(h1, h1[v].right) > 0
                    THEN LET t == RightRotation(h1, h1[v].right)
                         IN  [t.h EXCEPT ![v].right = t.r]
                    ELSE h1
          IN  LeftRotation(a, v)
      ELSE IF GetBalance(h1, v) = 2 THEN
          LET a  == IF GetBalance(h1, h1[v].left) < 0
                    THEN LET t == LeftRotation(h1, h1[v].left)
                         IN  [t.h EXCEPT ![v].left = t.r]
                    ELSE h1
          IN  RightRotation(a, v)
      ELSE [h |-> h1, r |-> v]

\* Insert that compares against the key of the sentinel too.
RECURSIVE InsertPastEnd(_, _, _, _, _)
InsertPastEnd(h, v, k, par, n) ==
    IF v = NULL THEN [h |-> [h EXCEPT ![n] = KeyNode(k, par)], r |-> n]
    ELSE IF k < h[v].key THEN
        LET t == InsertPastEnd(h, h[v].left, k, v, n)
        IN  FixBalance([t.h EXCEPT ![v].left = t.r], v)
    ELSE
        LET t == InsertPastEnd(h, h[v].right, k, v, n)
        IN  FixBalance([t.h EXCEPT ![v].right = t.r], v)

\* Insert that descends to the right for smaller keys.
RECURSIVE InsertMirrored(_, _, _, _, _)
InsertMirrored(h, v, k, par, n) ==
    IF v = NULL THEN [h |-> [h EXCEPT ![n] = KeyNode(k, par)], r |-> n]
    ELSE IF h[v].is_end \/ h[v].key < k THEN
        LET t == InsertMirrored(h, h[v].left, k, v, n)
        IN  FixBalance([t.h EXCEPT ![v].left = t.r], v)
    ELSE
        LET t == InsertMirrored(h, h[v].right, k, v, n)
        IN  FixBalance([t.h EXCEPT ![v].right = t.r], v)

\* Insert(v, k, par); n is the address operator new returns.
RECURSIVE Insert(_, _, _, _, _)
Insert(h, v, k, par, n) ==
    IF v = NULL THEN [h |-> [h EXCEPT ![n] = KeyNode(k, par)], r |-> n]
    ELSE IF h[v].is_end \/ k < h[v].key THEN
        LET t == Insert(h, h[v].left, k, v, n)
        IN  FixBalance([t.h EXCEPT ![v].left = t.r], v)
    ELSE
        LET t == Insert(h, h[v].right, k, v, n)
        IN  FixBalance([t.h EXCEPT ![v].right = t.r], v)

RECURSIVE FindMin(_, _)
FindMin(h, v) == IF h[v].left = NULL THEN v ELSE FindMin(h, h[v].left)

RECURSIVE FindEnd(_, _)
FindEnd(h, v) == IF h[v].right = NULL THEN v ELSE FindEnd(h, h[v].right)

RECURSIVE EraseMin(_, _)
EraseMin(h, v) ==
    IF h[v].left = NULL THEN
        LET h1 == IF h[v].right # NULL
                  THEN [h EXCEPT ![h[v].right].parent = h[v].parent] ELSE h
        IN  [h |-> h1, r |-> h[v].right]
    ELSE
        LET t == EraseMin(h, h[v].left)
        IN  FixBalance([t.h EXCEPT ![v].left = t.r], v)

\* Reparent that leaves the parent field of c as it was.
ReparentSkipped(h, c, p) == h

\* if (c != nullptr) c->parent = p;
Reparent(h, c, p) == IF c # NULL THEN [h EXCEPT ![c].parent = p] ELSE h

\* EraseLeaf that returns nullptr, dropping the left subtree of v.
EraseLeafDropsLeft(h, v, l) ==
    [h |-> [Reparent(h, l, h[v].parent) EXCEPT ![v] = Blank],
     r |-> NULL, del |-> {v}]

\* Erase, v holding the key and having no right child: l takes v's place.
EraseLeaf(h, v, l) ==
    [h |-> [Reparent(h, l, h[v].parent) EXCEPT ![v] = Blank],
     r |-> l, del |-> {v}]

\* EraseInner that moves the key of minn into v and deletes minn instead.
EraseInnerCopiesKey(e, v, l, minn) ==
    LET h4 == [e.h EXCEPT ![v].key = e.h[minn].key,
                          ![v].right = e.r,
                          ![minn] = Blank]
        b  == FixBalance(Reparent(h4, e.r, v), v)
    IN  [h |-> b.h, r |-> b.r, del |-> {minn}]

\* Erase, v holding the key and having a right child: minn, the least node
\* of the right subtree, takes v's place; e is what EraseMin(r) returned.
EraseInner(e, v, l, minn) ==
    LET h4 == [e.h EXCEPT ![minn].right = e.r,
                          ![minn].parent = e.h[v].parent,
                          ![v] = Blank,
                          ![minn].left = l]
        b  == FixBalance(Reparent(Reparent(h4, l, minn), e.r, minn), minn)
    IN  [h |-> b.h, r |-> b.r, del |-> {v}]

\* v->left = t; v = FixBalance(v), t being what the recursive call returned.
Relink(t, v, side) ==
    LET b == FixBalance(IF side = "left" THEN [t.h EXCEPT ![v].left = t.r]
                                         ELSE [t.h EXCEPT ![v].right = t.r], v)
    IN  [h |-> b.h, r |-> b.r, del |-> t.del]

\* Erase(v, k): the heap, the new subtree root, and the addresses deleted.
RECURSIVE Erase(_, _, _)
Erase(h, v, k) ==
    IF v = NULL THEN [h |-> h, r |-> NULL, del |-> {}]
    ELSE IF h[v].is_end \/ k < h[v].key
         THEN Relink(Erase(h, h[v].left, k), v, "left")
    ELSE IF h[v].key < k
         THEN Relink(Erase(h, h[v].right, k), v, "right")
    ELSE IF h[v].right = NULL
         THEN EraseLeaf(h, v, h[v].left)
    ELSE EraseInner(EraseMin(h, h[v].right), v, h[v].left,
                    FindMin(h, h[v].right))

\* Find that does not look at the left child of the sentinel.
RECURSIVE FindSkipsEnd(_, _, _)
FindSkipsEnd(h, v, k) ==
    IF v = NULL THEN NULL
    ELSE IF h[v].is_end THEN NULL
    ELSE IF k < h[v].key THEN FindSkipsEnd(h, h[v].left, k)
    ELSE IF h[v].key < k THEN FindSkipsEnd(h, h[v].right, k)
    ELSE v

RECURSIVE Find(_, _, _)
Find(h, v, k) ==
    IF v = NULL THEN NULL
    ELSE IF h[v].is_end THEN
        IF h[v].left # NULL /\ ~(h[h[v].left].key < k)
                            /\ ~(k < h[h[v].left].key)
        THEN h[v].left ELSE NULL
    ELSE IF k < h[v].key THEN Find(h, h[v].left, k)
    ELSE IF h[v].key < k THEN Find(h, h[v].right, k)
    ELSE v

\* LowerBound that returns the least node of the tree.
LowerBoundLeast(h, v, par, k) == FindMin(h, v)

RECURSIVE LowerBound(_, _, _, _)
LowerBound(h, v, par, k) ==
    IF v = NULL THEN par
    ELSE IF h[v].is_end THEN
        IF h[v].left # NULL /\ ~(h[h[v].left].key < k)
        THEN h[v].left ELSE v
    ELSE IF k < h[v].key THEN LowerBound(h, h[v].left, v, k)
    ELSE IF h[v].key < k THEN LowerBound(h, h[v].right, v, k)
    ELSE v

\* DestroySet(v): the addresses deleted, each once, and the heap without them.
RECURSIVE Subtree(_, _)
Subtree(h, v) ==
    IF v = NULL THEN {}
    ELSE Subtree(h, h[v].left) \cup Subtree(h, h[v].right) \cup {v}

\* The addresses DestroySet(v) hands to delete, in the order of the calls:
\* the left subtree, the right subtree, then v.
RECURSIVE DestroyOrder(_, _)
DestroyOrder(h, v) ==
    IF v = NULL THEN <<>>
    ELSE DestroyOrder(h, h[v].left) \o DestroyOrder(h, h[v].right) \o <<v>>

\* DestroySet that leaves the sentinel allocated.
DestroySetKeepsEnd(h, v) ==
    LET del == {n \in Subtree(h, v) : ~h[n].is_end}
    IN  [h |-> [n \in NodeIds |-> IF n \in del THEN Blank ELSE h[n]],
         del |-> del]

DestroySet(h, v) ==
    LET del == Subtree(h, v)
    IN  [h |-> [n \in NodeIds |-> IF n \in del THEN Blank ELSE h[n]],
         del |-> del]

\* CopyNode that hands back the node it was given: a shallow copy.
CopyNodeShallow(h, lv, v, par, s, g) == [h |-> h, lv |-> lv, r |-> v]

\* CopyNode(v, par) into set s: the heap, the allocated addresses, the copy.
\* g is what the memory of a new sentinel holds in its key.
RECURSIVE CopyNode(_, _, _, _, _, _)
CopyNode(h, lv, v, par, s, g) ==
    IF v = NULL THEN [h |-> h, lv |-> lv, r |-> NULL]
    ELSE IF h[v].is_end THEN
        LET n  == Alloc(lv, EndHint(s))
            h1 == [h EXCEPT ![n] = EndNode(g, par)]
            c  == CopyNode(h1, lv \cup {n}, h[v].left, n, s, g)
        IN  [h |-> [c.h EXCEPT ![n].left = c.r], lv |-> c.lv, r |-> n]
    ELSE
        LET n  == Alloc(lv, KeyHint(s, h[v].key))
            h1 == [h EXCEPT ![n] = KeyNode(h[v].key, par)]
            c  == CopyNode(h1, lv \cup {n}, h[v].left, n, s, g)
            h2 == [c.h EXCEPT ![n].left = c.r]
            d  == CopyNode(h2, c.lv, h[v].right, n, s, g)
        IN  [h |-> [d.h EXCEPT ![n].right = d.r], lv |-> d.lv, r |-> n]

\* ------------------------------------------------------------- iterator
RECURSIVE GetLeftmost(_, _)
GetLeftmost(h, v) == IF h[v].left # NULL THEN GetLeftmost(h, h[v].left) ELSE v

\* GetGreaterParent that compares against the key of the sentinel too.
RECURSIVE GetGreaterParentReadsEnd(_, _, _)
GetGreaterParentReadsEnd(h, v, t) ==
    IF ~(t < h[v].key) /\ h[v].parent # NULL
    THEN GetGreaterParentReadsEnd(h, h[v].parent, t)
    ELSE v

RECURSIVE GetGreaterParent(_, _, _)
GetGreaterParent(h, v, t) ==
    IF ~h[v].is_end /\ ~(t < h[v].key) /\ h[v].parent # NULL
    THEN GetGreaterParent(h, h[v].parent, t)
    ELSE v

\* iterator::operator++()
PreInc(h, it) ==
    IF h[it].is_end THEN it
    ELSE IF h[it].right # NULL THEN GetLeftmost(h, h[it].right)
    ELSE GetGreaterParent(h, it, h[it].key)

\* The climb of the postfix ++ of SetTemplate.h: it has no is_end test, so
\* at the sentinel it compares against the key the sentinel was left with.
RECURSIVE GreaterParentLoop(_, _, _)
GreaterParentLoop(h, v, t) ==
    IF ~(t < h[v].key) /\ h[v].parent # NULL
    THEN GreaterParentLoop(h, h[v].parent, t)
    ELSE v

\* iterator::operator++(int) of SetTemplate.h
PostInc(h, it) ==
    IF h[it].is_end THEN it
    ELSE IF h[it].right # NULL THEN GetLeftmost(h, h[it].right)
    ELSE GreaterParentLoop(h, it, h[it].key)

\* DecreaseEnd that never looks at the left child of the sentinel.
DecreaseEndToParent(h, v) == h[v].parent

DecreaseEnd(h, v) == IF h[v].left # NULL THEN h[v].left ELSE h[v].parent

RECURSIVE GetRightmost(_, _)
GetRightmost(h, v) ==
    IF h[v].right # NULL THEN GetRightmost(h, h[v].right) ELSE v

\* Below the sentinel the climb starts at the parent of the sentinel; a
\* sentinel that is the root leaves the position where it is.
HopEndParent(h, v) ==
    IF h[h[v].parent].is_end
    THEN IF h[h[v].parent].parent = NULL THEN v ELSE h[h[v].parent].parent
    ELSE v

\* The climb of -- in SetTemplate.h, which has no is_end test.
RECURSIVE LesserParentLoop(_, _, _)
LesserParentLoop(h, v, t) ==
    IF ~(h[v].key < t) /\ h[v].parent # NULL
    THEN LesserParentLoop(h, h[v].parent, t)
    ELSE v

\* The climb of -- in part_000, which stops at the sentinel.
RECURSIVE GetLesserParent(_, _, _)
GetLesserParent(h, v, t) ==
    IF ~h[v].is_end /\ ~(h[v].key < t) /\ h[v].parent # NULL
    THEN GetLesserParent(h, h[v].parent, t)
    ELSE v

\* iterator::operator--() of SetTemplate.h; from the end of an empty set
\* the position becomes NULL.
PreDec(h, it) ==
    IF h[it].is_end THEN DecreaseEnd(h, it)
    ELSE IF h[it].left # NULL THEN GetRightmost(h, h[it].left)
    ELSE IF h[it].parent = NULL THEN it
    ELSE IF h[h[it].parent].is_end /\ h[h[it].parent].parent = NULL THEN it
    ELSE LesserParentLoop(h, HopEndParent(h, it), h[it].key)

\* iterator::operator--() of part_000: the climb runs after every hop.
PreDecSon(h, it) ==
    IF h[it].is_end THEN DecreaseEnd(h, it)
    ELSE IF h[it].left # NULL THEN GetRightmost(h, h[it].left)
    ELSE IF h[it].parent = NULL THEN it
    ELSE GetLesserParent(h, HopEndParent(h, it), h[it].key)

\* iterator::operator--(int) of SetTemplate.h
PostDec(h, it) ==
    IF h[it].is_end
    THEN IF h[it].left # NULL THEN h[it].left ELSE h[it].parent
    ELSE IF h[it].left # NULL THEN GetRightmost(h, h[it].left)
    ELSE LET t == h[it].key
             p == h[it].parent
         IN  IF p = NULL THEN it
             ELSE IF h[p].is_end
                  THEN IF h[p].parent = NULL THEN it
                       ELSE LesserParentLoop(h, h[p].parent, t)
                  ELSE LesserParentLoop(h, it, t)

\* ------------------------------------------------------ public methods
\* A loop that would never end is cut off after MaxNodes rounds.
Diverged == 0 - 1

\* find(k) on the object with root rt and end position e.
find(h, rt, e, k) ==
    LET v == Find(h, rt, k) IN IF v = NULL THEN e ELSE v

\* begin()
begin(h, rt) == FindMin(h, rt)

\* The while loop of lower_bound: the position reached and the ++ steps taken.
RECURSIVE Sweep(_, _, _, _, _)
Sweep(h, it, e, k, n) ==
    IF it # e /\ h[it].key < k
    THEN IF n >= MaxNodes THEN [it |-> Diverged, steps |-> n]
         ELSE Sweep(h, PreInc(h, it), e, k, n + 1)
    ELSE [it |-> it, steps |-> n]

\* lower_bound without the loop after the descent.
lower_boundNoSweep(h, rt, e, k) == LowerBound(h, rt, NULL, k)

\* lower_bound(k)
lower_bound(h, rt, e, k) == Sweep(h, LowerBound(h, rt, NULL, k), e, k, 0).it

\* insert that does not look for the key first.
SetInsertUnchecked(h, lv, rt, sz, s, k) ==
    LET n == Alloc(lv, KeyHint(s, k))
        t == Insert(h, rt, k, NULL, n)
    IN  [h |-> t.h, lv |-> lv \cup {n}, root |-> t.r, size |-> sz + 1]

\* insert that forgets ++size_.
SetInsertKeepsSize(h, lv, rt, sz, s, k) ==
    IF Find(h, rt, k) = NULL
    THEN LET n == Alloc(lv, KeyHint(s, k))
             t == Insert(h, rt, k, NULL, n)
         IN  [h |-> t.h, lv |-> lv \cup {n}, root |-> t.r, size |-> sz]
    ELSE [h |-> h, lv |-> lv, root |-> rt, size |-> sz]

\* The body of insert(k): heap, allocated addresses, root_ and size_ after it.
SetInsert(h, lv, rt, sz, s, k) ==
    IF Find(h, rt, k) = NULL
    THEN LET n == Alloc(lv, KeyHint(s, k))
             t == Insert(h, rt, k, NULL, n)
         IN  [h |-> t.h, lv |-> lv \cup {n}, root |-> t.r, size |-> sz + 1]
    ELSE [h |-> h, lv |-> lv, root |-> rt, size |-> sz]

\* erase that forgets --size_.
SetEraseKeepsSize(h, lv, rt, sz, k) ==
    IF Find(h, rt, k) # NULL
    THEN LET t == Erase(h, rt, k)
         IN  [h |-> t.h, lv |-> lv \ t.del, root |-> t.r, size |-> sz]
    ELSE [h |-> h, lv |-> lv, root |-> rt, size |-> sz]

\* The body of erase(k).
SetErase(h, lv, rt, sz, k) ==
    IF Find(h, rt, k) # NULL
    THEN LET t == Erase(h, rt, k)
         IN  [h |-> t.h, lv |-> lv \ t.del, root |-> t.r, size |-> sz - 1]
    ELSE [h |-> h, lv |-> lv, root |-> rt, size |-> sz]

\* The body of Set(const Set &st), st having root srt and size ssz.
SetCopy(h, lv, srt, ssz, s, g) ==
    LET c == CopyNode(h, lv, srt, NULL, s, g)
    IN  [h |-> c.h, lv |-> c.lv, root |-> c.r, size |-> ssz,
         end |-> FindEnd(c.h, c.r)]

\* ----------------------------------------------------------------- state
\* Set(): one object, A, is constructed empty.
\* The history before any call on a constructed object.
NoCall == [op |-> "ctor", s |-> "A", k |-> 0, size0 |-> 0, had |-> FALSE,
           chain |-> 0 - 1, chainHad |-> FALSE, ret |-> NULL]

Init ==
    /\ junk \in Garbage
    /\ LET n == Alloc({}, EndHint("A")) IN
        /\ heap = [m \in NodeIds |->
                       IF m = n THEN EndNode(junk, NULL) ELSE Blank]
        /\ live = {n}
        /\ root_ = [s \in Sets |-> IF s = "A" THEN n ELSE NULL]
        /\ end_ = [s \in Sets |-> IF s = "A" THEN n ELSE NULL]
    /\ size_ = [s \in Sets |-> 0]
    /\ built = [s \in Sets |-> s = "A"]
    /\ keys = [s \in Sets |-> {}]
    /\ last = NoCall
    /\ age = [s \in Sets |-> 0]

\* s.insert(k)
insert(s, k) ==
    /\ built[s]
    /\ LET t == SetInsert(heap, live, root_[s], size_[s], s, k) IN
        /\ heap' = t.h
        /\ live' = t.lv
        /\ root_' = [root_ EXCEPT ![s] = t.root]
        /\ size_' = [size_ EXCEPT ![s] = t.size]
    /\ keys' = [keys EXCEPT ![s] = @ \cup {k}]
    /\ UNCHANGED <<end_, built, junk>>

\* s.erase(k)
erase(s, k) ==
    /\ built[s]
    /\ LET t == SetErase(heap, live, root_[s], size_[s], k) IN
        /\ heap' = t.h
        /\ live' = t.lv
        /\ root_' = [root_ EXCEPT ![s] = t.root]
        /\ size_' = [size_ EXCEPT ![s] = t.size]
    /\ keys' = [keys EXCEPT ![s] = @ \ {k}]
    /\ UNCHANGED <<end_, built, junk>>

\* s.find(k) and s.lower_bound(k) are const: they leave the object alone.
query(s) ==
    /\ built[s]
    /\ UNCHANGED <<heap, live, root_, size_, end_, built, junk, keys>>

\* Set s(t): copy construction of the object s from t.
copyConstruct(s, t) ==
    /\ ~built[s] /\ built[t]
    /\ LET c == SetCopy(heap, live, root_[t], size_[t], s, junk) IN
        /\ heap' = c.h
        /\ live' = c.lv
        /\ root_' = [root_ EXCEPT ![s] = c.root]
        /\ size_' = [size_ EXCEPT ![s] = c.size]
        /\ end_' = [end_ EXCEPT ![s] = c.end]
    /\ built' = [built EXCEPT ![s] = TRUE]
    /\ keys' = [keys EXCEPT ![s] = keys[t]]
    /\ UNCHANGED junk

\* s = t without the test for self-assignment.
assignUntested(s, t) ==
    /\ built[s] /\ built[t]
    /\ LET d == DestroySet(heap, root_[s])
           c == SetCopy(d.h, live \ d.del, root_[t], size_[t], s, junk)
       IN
       /\ heap' = c.h
       /\ live' = c.lv
       /\ root_' = [root_ EXCEPT ![s] = c.root]
       /\ size_' = [size_ EXCEPT ![s] = c.size]
       /\ end_' = [end_ EXCEPT ![s] = c.end]
    /\ keys' = [keys EXCEPT ![s] = keys[t]]
    /\ UNCHANGED <<built, junk>>

\* s = t
assign(s, t) ==
    /\ built[s] /\ built[t]
    /\ IF s = t
       THEN UNCHANGED <<heap, live, root_, size_, end_>>
       ELSE LET d == DestroySet(heap, root_[s])
                c == SetCopy(d.h, live \ d.del, root_[t], size_[t], s, junk)
            IN
            /\ heap' = c.h
            /\ live' = c.lv
            /\ root_' = [root_ EXCEPT ![s] = c.root]
            /\ size_' = [size_ EXCEPT ![s] = c.size]
            /\ end_' = [end_ EXCEPT ![s] = c.end]
    /\ keys' = [keys EXCEPT ![s] = keys[t]]
    /\ UNCHANGED <<built, junk>>

\* ~Set() of the object s
destroy(s) ==
    /\ built[s]
    /\ LET d == DestroySet(heap, root_[s]) IN
        /\ heap' = d.h
        /\ live' = live \ d.del
    /\ root_' = [root_ EXCEPT ![s] = NULL]
    /\ end_' = [end_ EXCEPT ![s] = NULL]
    /\ size_' = [size_ EXCEPT ![s] = 0]
    /\ built' = [built EXCEPT ![s] = FALSE]
    /\ keys' = [keys EXCEPT ![s] = {}]
    /\ UNCHANGED junk

\* ------------------------------------------------------------ histories
\* What a caller notes down around a call: the call, size() before it,
\* whether find(k) != end() held before it, and the position a query
\* returned.  For an erase(k) that directly follows insert(k): size() before
\* that insert (else -1) and whether find(k) != end() held before it.
Follows(op, s, k) ==
    op = "erase" /\ last.op = "insert" /\ last.s = s /\ last.k = k

Noted(op, s, k, ret) ==
    last' = [op |-> op, s |-> s, k |-> k, size0 |-> size_[s],
             had |-> find(heap, root_[s], end_[s], k) # end_[s],
             chain |-> IF Follows(op, s, k) THEN last.size0 ELSE 0 - 1,
             chainHad |-> Follows(op, s, k) /\ last.had,
             ret |-> ret]

\* One object, reached from the empty set by insert and erase, and queried.
Next ==
    \/ \E k \in Keys :
          insert("A", k) /\ Noted("insert", "A", k, NULL) /\ UNCHANGED age
    \/ \E k \in Keys :
          erase("A", k) /\ Noted("erase", "A", k, NULL) /\ UNCHANGED age
    \/ \E k \in Keys :
          /\ query("A")
          /\ Noted("find", "A", k, find(heap, root_["A"], end_["A"], k))
          /\ UNCHANGED age
    \/ \E k \in Probes :
          /\ query("A")
          /\ Noted("lower_bound", "A", k,
                   lower_bound(heap, root_["A"], end_["A"], k))
          /\ UNCHANGED age

Spec == Init /\ [][Next]_vars

\* The life of one object: built empty, changed by insert and erase, then
\* destroyed.  Nothing is called on a destroyed object.
NextLife ==
    \/ \E k \in Keys :
          insert("A", k) /\ Noted("insert", "A", k, NULL) /\ UNCHANGED age
    \/ \E k \in Keys :
          erase("A", k) /\ Noted("erase", "A", k, NULL) /\ UNCHANGED age
    \/ destroy("A") /\ Noted("dtor", "A", 0, NULL) /\ UNCHANGED age

SpecLife == Init /\ [][NextLife]_vars

\* Two objects: B is copy-constructed or assigned from A, both are mutated,
\* B is destroyed.  A copy takes at most MaxCopyOps changes and holds at
\* most MaxCopyKey elements.
Aged(s) ==
    age' = [age EXCEPT ![s] = IF s = "B" /\ heap' # heap THEN @ + 1 ELSE @]
Fresh(s) == age' = [age EXCEPT ![s] = 0]
Room(s, k) ==
    /\ s = "B" => age[s] < MaxCopyOps
    /\ Find(heap, root_[s], k) = NULL => size_[s] < MaxCopyKey

\* With two objects the history only tells whether the last call was a
\* self-assignment, and of which object.
SelfAssigned(s) == last' = [NoCall EXCEPT !.op = "assign", !.s = s]
Unnoted == last' = NoCall

NextCopy ==
    \/ \E s \in Sets, k \in CopyKeys :
          Room(s, k) /\ insert(s, k) /\ Aged(s) /\ Unnoted
    \/ \E s \in Sets, k \in CopyKeys :
          Room(s, k) /\ erase(s, k) /\ Aged(s) /\ Unnoted
    \/ copyConstruct("B", "A") /\ Fresh("B") /\ Unnoted
    \/ assign("B", "A") /\ Fresh("B") /\ Unnoted
    \/ \E s \in Sets : assign(s, s) /\ SelfAssigned(s) /\ UNCHANGED age
    \/ destroy("B") /\ Fresh("B") /\ Unnoted

SpecCopy == Init /\ [][NextCopy]_vars

\* ---------------------------------------------------------- observations
\* The nodes reachable from root rt through left and right links.
Reach(h, rt) == Subtree(h, rt)

KeyNodes(h, rt) == {n \in Reach(h, rt) : ~h[n].is_end}

\* The height of the subtree at v as the links give it.
RECURSIVE TrueHeight(_, _)
TrueHeight(h, v) ==
    IF v = NULL THEN 0
    ELSE Max(TrueHeight(h, h[v].left), TrueHeight(h, h[v].right)) + 1

Least(S) == CHOOSE x \in S : \A y \in S : x <= y

RECURSIVE SortedSeq(_)
SortedSeq(S) ==
    IF S = {} THEN <<>> ELSE <<Least(S)>> \o SortedSeq(S \ {Least(S)})

\* The positions it, ++it, ..., after n increments.
RECURSIVE Walk(_, _, _)
Walk(h, it, n) ==
    IF n = 0 THEN <<it>> ELSE <<it>> \o Walk(h, PreInc(h, it), n - 1)

\* for (it = begin(); it != end(); ++it) collecting *it, cut off after
\* MaxNodes rounds.
RECURSIVE KeysUpTo(_, _, _, _)
KeysUpTo(h, it, e, n) ==
    IF it = e \/ n >= MaxNodes THEN <<>>
    ELSE <<h[it].key>> \o KeysUpTo(h, PreInc(h, it), e, n + 1)

KeySeq(h, rt, e) == KeysUpTo(h, begin(h, rt), e, 0)

\* find(k) != end()
Contains(h, rt, e, k) == find(h, rt, e, k) # e

\* The position after n prefix decrements of SetTemplate.h from it; a
\* position that became NULL stays NULL.
RECURSIVE Back(_, _, _)
Back(h, it, n) ==
    IF n = 0 \/ it = NULL THEN it ELSE Back(h, PreDec(h, it), n - 1)

\* The same with the prefix decrement of part_000.
RECURSIVE BackSon(_, _, _)
BackSon(h, it, n) ==
    IF n = 0 \/ it = NULL THEN it ELSE BackSon(h, PreDecSon(h, it), n - 1)

\* ---------------------------------------------------------------- claims
\* C1: in every state reached from the empty set by insert and erase, for
\* every key k, find(k) is a position holding k when k was inserted and not
\* erased since, and is end() otherwise.
C1_FindContract ==
    \A k \in Keys :
        LET p == find(heap, root_["A"], end_["A"], k) IN
        IF k \in keys["A"]
        THEN /\ p \in KeyNodes(heap, root_["A"])
             /\ p # end_["A"]
             /\ heap[p].key = k
        ELSE p = end_["A"]

\* A find call that returned a position deep in the tree, while another key
\* is absent.
C1_Witness ==
    /\ last.op = "find"
    /\ last.ret # end_["A"]
    /\ heap[last.ret].key = last.k
    /\ heap[last.ret].parent # NULL
    /\ heap[last.ret].parent # end_["A"]
    /\ \E j \in Keys : j \notin keys["A"]
                       /\ find(heap, root_["A"], end_["A"], j) = end_["A"]

\* C2: after insert(k), k is a member, size() has grown by one if k was
\* absent and is unchanged if k was present, and every other key is a
\* member exactly if it was before.
C2_InsertContract ==
    [][last'.op = "insert" =>
        LET k == last'.k IN
        /\ Contains(heap', root_'["A"], end_'["A"], k)
        /\ size_'["A"] = size_["A"]
               + (IF Contains(heap, root_["A"], end_["A"], k) THEN 0 ELSE 1)
        /\ \A j \in Keys \ {k} :
               Contains(heap', root_'["A"], end_'["A"], j)
                   = Contains(heap, root_["A"], end_["A"], j)]_vars

\* An insert of an absent key into a set of four or more.
C2_Witness ==
    /\ last.op = "insert"
    /\ ~last.had
    /\ last.size0 >= 4
    /\ size_["A"] = last.size0 + 1

\* C3: after erase(k), find(k) = end(), size() has shrunk by one if k was
\* present and is unchanged if k was absent, and every other key is a
\* member exactly if it was before.
C3_EraseContract ==
    [][last'.op = "erase" =>
        LET k == last'.k IN
        /\ find(heap', root_'["A"], end_'["A"], k) = end_'["A"]
        /\ size_'["A"] = size_["A"]
               - (IF Contains(heap, root_["A"], end_["A"], k) THEN 1 ELSE 0)
        /\ \A j \in Keys \ {k} :
               Contains(heap', root_'["A"], end_'["A"], j)
                   = Contains(heap, root_["A"], end_["A"], j)]_vars

\* An erase of a present key from a set of five or more.
C3_Witness ==
    /\ last.op = "erase"
    /\ last.had
    /\ last.size0 >= 5
    /\ size_["A"] = last.size0 - 1

\* C4: from begin(), ++ visits every key of the set once, in strictly
\* increasing order, and reaches end() after exactly size() increments;
\* begin() is the position of the least key, and is end() on the empty set.
C4_Iteration ==
    LET n == size_["A"]
        w == Walk(heap, begin(heap, root_["A"]), n)
        sorted == SortedSeq(keys["A"])
    IN  /\ w[n + 1] = end_["A"]
        /\ Len(sorted) = n
        /\ \A i \in 1..n : /\ w[i] # end_["A"]
                            /\ ~heap[w[i]].is_end
                            /\ heap[w[i]].key = sorted[i]
        /\ \A i, j \in 1..n : i < j => heap[w[i]].key < heap[w[j]].key

\* A walk over five or more keys, begin() not being the root.
C4_Witness ==
    /\ size_["A"] >= 5
    /\ begin(heap, root_["A"]) # root_["A"]
    /\ Walk(heap, begin(heap, root_["A"]), size_["A"])[size_["A"] + 1]
           = end_["A"]

\* C5: lower_bound(k) is the position of the least element not less than
\* k, and end() when every element is less than k.
C5_LowerBound ==
    \A k \in Probes :
        LET p  == lower_bound(heap, root_["A"], end_["A"], k)
            ge == {x \in keys["A"] : ~(x < k)}
        IN  IF ge = {}
            THEN p = end_["A"]
            ELSE /\ p \in KeyNodes(heap, root_["A"])
                 /\ heap[p].key = Least(ge)

\* A lower_bound call for an absent key that returned a greater key.
C5_Witness ==
    /\ last.op = "lower_bound"
    /\ last.k \notin keys["A"]
    /\ last.ret # end_["A"]
    /\ last.ret = lower_bound(heap, root_["A"], end_["A"], last.k)
    /\ last.k < heap[last.ret].key
    /\ \E x \in keys["A"] : x < last.k

\* C6: after any sequence of insert and erase, every node, the sentinel
\* included, has left and right subtrees whose heights differ by at most 1.
C6_Balanced ==
    \A n \in Reach(heap, root_["A"]) :
        LET d == TrueHeight(heap, heap[n].left)
                     - TrueHeight(heap, heap[n].right)
        IN  0 - 1 <= d /\ d <= 1

\* A tree of five keys or more that an erase has just shrunk.
C6_Witness ==
    /\ last.op = "erase"
    /\ last.had
    /\ last.size0 >= 6
    /\ TrueHeight(heap, root_["A"]) >= 3

\* C7: size() is the number of distinct keys in the set, and the number of
\* nodes other than the sentinel reachable from the root.
C7_Size ==
    /\ size_["A"] = Cardinality(keys["A"])
    /\ size_["A"] = Cardinality(KeyNodes(heap, root_["A"]))
    /\ {heap[n].key : n \in KeyNodes(heap, root_["A"])} = keys["A"]

\* Inserting a key that is present left a set of three or more as it was.
C7_Witness ==
    /\ last.op = "insert"
    /\ last.had
    /\ size_["A"] >= 3
    /\ size_["A"] = Cardinality(keys["A"])

\* C8 as claimed: after insert(k) directly followed by erase(k),
\* find(k) = end() and size() is what it was before the insert.
C8_Claimed ==
    (last.op = "erase" /\ last.chain >= 0) =>
        /\ find(heap, root_["A"], end_["A"], last.k) = end_["A"]
        /\ size_["A"] = last.chain

\* C8 amended: after insert(k) directly followed by erase(k),
\* find(k) = end(), and size() is what it was before the insert when k was
\* absent then, and one less when k was present then.
C8_InsertErase ==
    (last.op = "erase" /\ last.chain >= 0) =>
        /\ find(heap, root_["A"], end_["A"], last.k) = end_["A"]
        /\ size_["A"] = last.chain - (IF last.chainHad THEN 1 ELSE 0)

\* insert(k) of an absent key directly followed by erase(k).
C8_Witness ==
    /\ last.op = "erase"
    /\ last.chain >= 3
    /\ ~last.chainHad
    /\ size_["A"] = last.chain

Other(s) == IF s = "A" THEN "B" ELSE "A"

\* The step left the object o as it was: its fields, and every node it
\* reaches, still allocated and with the same content.
Untouched(o) ==
    /\ root_'[o] = root_[o]
    /\ size_'[o] = size_[o]
    /\ end_'[o] = end_[o]
    /\ \A n \in Reach(heap, root_[o]) : n \in live' /\ heap'[n] = heap[n]
    /\ KeySeq(heap', root_'[o], end_'[o]) = KeySeq(heap, root_[o], end_[o])

\* C9: when B is copy-constructed or copy-assigned from A, B holds A's
\* keys and size(), the two share no node and A is left as it was; every
\* later insert or erase on one of the two leaves the other as it was, and
\* the two still share no node.
C9_CopyIndependent ==
    [][/\ (copyConstruct("B", "A") \/ assign("B", "A")) =>
            /\ KeySeq(heap', root_'["B"], end_'["B"])
                   = KeySeq(heap', root_'["A"], end_'["A"])
            /\ size_'["B"] = size_'["A"]
            /\ Reach(heap', root_'["A"]) \cap Reach(heap', root_'["B"]) = {}
            /\ Untouched("A")
       /\ \A s \in Sets, k \in CopyKeys :
            (built["A"] /\ built["B"] /\ (insert(s, k) \/ erase(s, k))) =>
                /\ Untouched(Other(s))
                /\ Reach(heap', root_'["A"]) \cap Reach(heap', root_'["B"])
                       = {}]_vars

\* A copy of a set of two or more that has since been changed, so that the
\* two objects differ.
C9_Witness ==
    /\ built["B"]
    /\ age["B"] >= 1
    /\ size_["A"] >= 2
    /\ size_["B"] >= 1
    /\ KeySeq(heap, root_["B"], end_["B"]) # KeySeq(heap, root_["A"], end_["A"])
    /\ Reach(heap, root_["A"]) \cap Reach(heap, root_["B"]) = {}

\* C10: a copy behaves like the original under further insert and erase:
\* find(k) is a position holding k for every key k it contains, size() is
\* the number of distinct keys it contains, and the begin()-to-end() sequence
\* is that of the original holding the same keys.
C10_CopyBehaves ==
    built["B"] =>
        /\ \A k \in keys["B"] :
               LET p == find(heap, root_["B"], end_["B"], k) IN
               p # end_["B"] /\ heap[p].key = k
        /\ size_["B"] = Cardinality(keys["B"])
        /\ KeySeq(heap, root_["B"], end_["B"]) = SortedSeq(keys["B"])
        /\ keys["A"] = keys["B"] =>
               KeySeq(heap, root_["B"], end_["B"])
                   = KeySeq(heap, root_["A"], end_["A"])

\* C11: in every non-empty set, the i-th prefix decrement from end(), for
\* i from 1 to size(), lands on the node holding the i-th largest key; the
\* first lands on the maximum and the size()-th on begin().  Both source
\* files' decrements do so.
C11_Decrement ==
    LET h  == heap
        e  == end_["A"]
        n  == size_["A"]
        ks == SortedSeq(keys["A"])
    IN  n >= 1 =>
            \A i \in 1..n :
                LET p == Back(h, e, i)
                    q == BackSon(h, e, i)
                IN  /\ p # NULL /\ ~h[p].is_end
                    /\ h[p].key = ks[n - i + 1]
                    /\ q = p
                    /\ i = n => p = begin(h, root_["A"])

\* A set of five or more keys whose sentinel has both a left child and a
\* parent, so that the walk back from end() takes the hop over the sentinel.
C11_Witness ==
    /\ size_["A"] >= 5
    /\ heap[end_["A"]].left # NULL
    /\ heap[end_["A"]].parent # NULL
    /\ Back(heap, end_["A"], size_["A"]) = begin(heap, root_["A"])
    /\ heap[Back(heap, end_["A"], 2)].key < heap[Back(heap, end_["A"], 1)].key

\* C12: positions are stable.  Over every insert(j), and every erase(j) for
\* every key k other than j, the node that held k before the call is still
\* allocated and holds k afterwards and is what find(k) returns afterwards;
\* and end() is the same sentinel node, still the rightmost node of the
\* tree, before and after the call.
C12_StablePositions ==
    [][last'.op \in {"insert", "erase"} =>
        LET e == end_["A"] IN
        /\ \A k \in Keys :
               LET p == find(heap, root_["A"], e, k) IN
               (p # e /\ ~(last'.op = "erase" /\ last'.k = k)) =>
                   /\ p \in live'
                   /\ ~heap'[p].is_end
                   /\ heap'[p].key = k
                   /\ find(heap', root_'["A"], end_'["A"], k) = p
        /\ end_'["A"] = e
        /\ e \in live'
        /\ heap'[e].is_end
        /\ FindEnd(heap', root_'["A"]) = e]_vars

\* An erase of a present key that left four or more keys, one of them at a
\* node with two children, in place.
C12_Witness ==
    /\ last.op = "erase"
    /\ last.had
    /\ size_["A"] >= 4
    /\ \E n \in KeyNodes(heap, root_["A"]) :
           /\ heap[n].left # NULL /\ heap[n].right # NULL
           /\ heap[n].key > last.k
    /\ \A k \in keys["A"] :
           heap[find(heap, root_["A"], end_["A"], k)].key = k

\* C13: assigning a set to itself is a no-op: no node is freed or
\* allocated, no node is written, and the key sequence, size(), the root
\* and the end position of the set are what they were.
C13_SelfAssign ==
    [][last'.op = "assign" =>
        LET s == last'.s IN
        /\ live' = live
        /\ heap' = heap
        /\ size_'[s] = size_[s]
        /\ root_'[s] = root_[s]
        /\ end_'[s] = end_[s]
        /\ KeySeq(heap', root_'[s], end_'[s]) = KeySeq(heap, root_[s], end_[s])
        /\ size_' = size_ /\ root_' = root_ /\ end_' = end_]_vars

\* A self-assignment of a set of two or more keys while both objects live.
C13_Witness ==
    /\ last.op = "assign"
    /\ size_[last.s] >= 2
    /\ built["A"] /\ built["B"]

\* The cached height of n is one more than the larger of the cached heights
\* of its children, an absent child counting as 0.
HeightCached(h, n) ==
    h[n].height = 1 + Max(GetHeight(h, h[n].left), GetHeight(h, h[n].right))

\* C14: in every state reached by insert, erase, copy construction and
\* copy assignment, every node of every set has its cached height equal to
\* one more than the larger of its children's heights (absent child: 0).
C14_Heights ==
    \A s \in Sets :
        built[s] => \A n \in Reach(heap, root_[s]) : HeightCached(heap, n)

\* C15: after every completed insert and erase, the parent field of every
\* node is its structural parent: a child c of n has c.parent = n, and the
\* parent of the root is null.
C15_Parents ==
    LET h == heap IN
    /\ h[root_["A"]].parent = NULL
    /\ \A n \in Reach(h, root_["A"]) :
           /\ h[n].left # NULL => h[h[n].left].parent = n
           /\ h[n].right # NULL => h[h[n].right].parent = n

\* After an erase of a present key, a tree of three levels or more whose
\* root has a grandchild.
C15_Witness ==
    /\ last.op = "erase"
    /\ last.had
    /\ size_["A"] >= 4
    /\ \E n \in Reach(heap, root_["A"]) :
           /\ heap[n].parent # NULL
           /\ heap[heap[n].parent].parent = root_["A"]

\* C16: the tree holds exactly one node with is_end; it is the root or is
\* reached from the root by right links alone, it has no right child, and
\* its left child, when present, holds the maximum key and has no children.
C16_Sentinel ==
    LET h  == heap
        rt == root_["A"]
        e  == FindEnd(h, rt)
        l  == h[e].left
    IN  /\ {n \in Reach(h, rt) : h[n].is_end} = {e}
        /\ e = end_["A"]
        /\ h[e].right = NULL
        /\ l # NULL =>
               /\ h[l].left = NULL /\ h[l].right = NULL
               /\ \A n \in KeyNodes(h, rt) : h[n].key <= h[l].key

\* A sentinel two right links below the root, with a left child, after an
\* insert.
C16_Witness ==
    /\ last.op = "insert"
    /\ heap[end_["A"]].left # NULL
    /\ heap[end_["A"]].parent # NULL
    /\ heap[end_["A"]].parent # root_["A"]
    /\ heap[heap[end_["A"]].parent].right = end_["A"]

\* C17: in every state reached by inserts and erases the tree is a binary
\* search tree without duplicates: every key in the left subtree of a node
\* is less than the node's key, every key in its right subtree is greater,
\* and the sentinel, greater than every key, is in no left subtree.
C17_SearchTree ==
    LET h == heap IN
    \A n \in Reach(h, root_["A"]) :
        /\ \A m \in Subtree(h, h[n].left) :
               ~h[m].is_end /\ (~h[n].is_end => h[m].key < h[n].key)
        /\ \A m \in Subtree(h, h[n].right) :
               ~h[n].is_end /\ (~h[m].is_end => h[n].key < h[m].key)

\* Six or more keys in a tree whose root has key nodes on both sides.
C17_Witness ==
    /\ size_["A"] >= 6
    /\ Cardinality(KeyNodes(heap, root_["A"])) = size_["A"]
    /\ heap[root_["A"]].left # NULL
    /\ \E m \in Subtree(heap, heap[root_["A"]].right) :
           ~heap[m].is_end /\ heap[m].left # NULL

\* C18: the raw descent LowerBound(root, null, k), before the corrective
\* loop of lower_bound, returns the sentinel or a node whose key is not
\* less than k, so the corrective loop never takes a step.
C18_RawDescent ==
    \A k \in Probes :
        LET r == LowerBound(heap, root_["A"], NULL, k) IN
        /\ r = end_["A"] \/ ~(heap[r].key < k)
        /\ Sweep(heap, r, end_["A"], k, 0).steps = 0

\* C19: the corrective loop of lower_bound ends after at most one ++ step:
\* what the raw descent LowerBound returns is the answer (the position of
\* the least key not less than k, or end()) or its in-order predecessor.
C19_OneStep ==
    \A k \in Probes :
        LET e   == end_["A"]
            r   == LowerBound(heap, root_["A"], NULL, k)
            w   == Sweep(heap, r, e, k, 0)
            ge  == {x \in keys["A"] : ~(x < k)}
            ans == IF ge = {} THEN e
                   ELSE find(heap, root_["A"], e, Least(ge))
        IN  /\ w.steps <= 1
            /\ w.it = ans
            /\ r = ans \/ (r # e /\ PreInc(heap, r) = ans)

\* A lower_bound call whose raw descent ended on a key less than the one
\* asked for, in a set of four or more keys.
C19_Witness ==
    /\ last.op = "lower_bound"
    /\ size_["A"] >= 4
    /\ LET r == LowerBound(heap, root_["A"], NULL, last.k) IN
           /\ r # end_["A"]
           /\ heap[r].key < last.k
           /\ Sweep(heap, r, end_["A"], last.k, 0).steps = 1
           /\ Sweep(heap, r, end_["A"], last.k, 0).it = last.ret

\* C20: from every key position of every set, postfix ++ moves to the
\* position prefix ++ moves to, and postfix -- to the position prefix --
\* moves to, whatever the unused key of the sentinel holds; postfix ++ from
\* the position of the maximum key lands on end().
C20_Postfix ==
    LET h == heap IN
    \A n \in KeyNodes(h, root_["A"]) :
        /\ PostInc(h, n) = PreInc(h, n)
        /\ PostDec(h, n) = PreDec(h, n)
        /\ (\A x \in keys["A"] : x <= h[n].key) => PostInc(h, n) = end_["A"]

\* C21: in a set of exactly one element, where the sentinel is the root
\* and the element its left child, decrementing an iterator at the element
\* leaves it at the element, with the decrement of either source file.
C21_SingleElement ==
    LET h == heap
        e == end_["A"]
        x == h[e].left
    IN  (size_["A"] = 1 /\ root_["A"] = e /\ x # NULL) =>
            /\ PreDec(h, x) = x
            /\ PostDec(h, x) = x
            /\ PreDecSon(h, x) = x

\* The allocated nodes are the size() + 1 nodes reachable from the root of
\* the living object; a destroyed object leaves no node allocated.
LiveNodes ==
    IF built["A"]
    THEN /\ live = Reach(heap, root_["A"])
         /\ Cardinality(live) = size_["A"] + 1
    ELSE live = {}

\* C22: across insert and erase calls followed by destruction every
\* allocated node is freed exactly once.  A successful erase frees exactly
\* the node that held the erased key (not the sentinel, not the successor
\* spliced in); an insert or an unsuccessful erase frees nothing; the live
\* nodes are at all times the size() + 1 nodes reachable from the root;
\* destruction hands each of them to delete once, the sentinel included.
C22_FreedOnce ==
    [][LET e == end_["A"]
           p == find(heap, root_["A"], e, last'.k)
           o == DestroyOrder(heap, root_["A"])
       IN  /\ LiveNodes /\ LiveNodes'
           /\ last'.op = "insert" =>
                  /\ live \subseteq live'
                  /\ Cardinality(live' \ live) = (IF p = e THEN 1 ELSE 0)
           /\ (last'.op = "erase" /\ p = e) => live' = live
           /\ (last'.op = "erase" /\ p # e) =>
                  /\ p \in live /\ ~heap[p].is_end /\ heap[p].key = last'.k
                  /\ live' = live \ {p}
                  /\ e \in live'
                  /\ PreInc(heap, p) \in live'
           /\ last'.op = "dtor" =>
                  /\ \A i, j \in 1..Len(o) : o[i] = o[j] => i = j
                  /\ {o[i] : i \in 1..Len(o)} = live
                  /\ Len(o) = size_["A"] + 1
                  /\ o[Len(o)] = root_["A"]
                  /\ \E i \in 1..Len(o) : o[i] = e
                  /\ live \ live' = {o[i] : i \in 1..Len(o)}
                  /\ live' = {}]_vars

\* A destroyed object that held five or more keys when its destructor ran.
C22_Witness ==
    /\ last.op = "dtor"
    /\ last.size0 >= 5
    /\ ~built["A"]
    /\ live = {}

====
